---- MODULE Spec2Model ----
(***************************************************************************)
(* Model of smartDevice.js: the SmartHomeSystem hub (device registry,      *)
(* observer fan-out, scheduler, automation triggers).                      *)
(*                                                                         *)
(* Objects live in `heap` (a sequence indexed by reference, in allocation  *)
(* order); `devices`, `observers` and the scheduled tasks hold references. *)
(* JavaScript strings that the code takes apart (trigger conditions) are   *)
(* sequences of one-character strings; all other strings are atoms.        *)
(* Every public method runs to completion in one step (the code is         *)
(* synchronous and single-threaded).  `lastCall`, `updateCalls`, `fired`   *)
(* and `scheduleCalls` record what the last call did and returned.         *)
(***************************************************************************)
EXTENDS Integers, Sequences, FiniteSets, TLC

VARIABLES heap, devices, observers, scheduledTasks, triggers,
          lastCall, updateCalls, fired, scheduleCalls, driver

vars == <<heap, devices, observers, scheduledTasks, triggers,
          lastCall, updateCalls, fired, scheduleCalls, driver>>

(***************************************************************************)
(* Bounds                                                                  *)
(***************************************************************************)
MaxDevices == 3
MaxTasks == 2
MaxTriggers == 1
MaxEngineTriggers == 2
\* devices, scheduled tasks and triggers of a hub, taken together
MaxObjects == 5

(***************************************************************************)
(* Strings                                                                 *)
(***************************************************************************)
Temperature == <<"t","e","m","p","e","r","a","t","u","r","e">>
Humidity == <<"h","u","m","i","d","i","t","y">>
UndefinedStr == <<"u","n","d","e","f","i","n","e","d">>

RECURSIVE Join(_, _)
\* Array.prototype.join on an array of strings
Join(toks, sep) ==
    IF Len(toks) = 0 THEN <<>>
    ELSE IF Len(toks) = 1 THEN toks[1]
    ELSE toks[1] \o sep \o Join(Tail(toks), sep)

RECURSIVE SplitFrom(_, _, _)
\* scan s from position i, cur is the token being collected
SplitFrom(s, i, cur) ==
    IF i > Len(s) THEN <<cur>>
    ELSE IF s[i] = " " THEN <<cur>> \o SplitFrom(s, i + 1, <<>>)
    ELSE SplitFrom(s, i + 1, Append(cur, s[i]))

\* String.prototype.split(' '): one token per separator, empty tokens kept
Split(s) == SplitFrom(s, 1, <<>>)

\* array destructuring: the i-th element or undefined
Element(toks, i) ==
    IF i <= Len(toks) THEN [def |-> TRUE, s |-> toks[i]]
    ELSE [def |-> FALSE, s |-> <<>>]

\* ToString of a string-or-undefined value
ToStr(v) == IF v.def THEN v.s ELSE UndefinedStr

IsWhite(c) == c \in {" ", "\t", "\n"}

DigitVal(c) ==
    CASE c = "0" -> 0 [] c = "1" -> 1 [] c = "2" -> 2 [] c = "3" -> 3
      [] c = "4" -> 4 [] c = "5" -> 5 [] c = "6" -> 6 [] c = "7" -> 7
      [] c = "8" -> 8 [] c = "9" -> 9
      [] c \in {"a", "A"} -> 10 [] c \in {"b", "B"} -> 11
      [] c \in {"c", "C"} -> 12 [] c \in {"d", "D"} -> 13
      [] c \in {"e", "E"} -> 14 [] c \in {"f", "F"} -> 15
      [] OTHER -> 99

IsDigit(c, radix) == DigitVal(c) < radix

RECURSIVE TrimLeft(_)
TrimLeft(s) == IF Len(s) > 0 /\ IsWhite(s[1]) THEN TrimLeft(Tail(s)) ELSE s

RECURSIVE DigitsPrefix(_, _, _, _)
\* value of the longest prefix of radix digits, and how many there were
DigitsPrefix(s, radix, acc, n) ==
    IF Len(s) > 0 /\ IsDigit(s[1], radix)
    THEN DigitsPrefix(Tail(s), radix, acc * radix + DigitVal(s[1]), n + 1)
    ELSE [value |-> acc, count |-> n]

\* parseInt(v) || 0: a value that is no number counts as zero
ParseIntOrZero(v) ==
    LET s0 == TrimLeft(ToStr(v))
        neg == Len(s0) > 0 /\ s0[1] = "-"
        s1 == IF Len(s0) > 0 /\ s0[1] \in {"+", "-"} THEN Tail(s0) ELSE s0
        d == DigitsPrefix(s1, 10, 0, 0)
    IN  [nan |-> FALSE, n |-> IF neg THEN 0 - d.value ELSE d.value]

\* parseInt(v) without a radix argument
ParseInt(v) ==
    LET s0 == TrimLeft(ToStr(v))
        neg == Len(s0) > 0 /\ s0[1] = "-"
        s1 == IF Len(s0) > 0 /\ s0[1] \in {"+", "-"} THEN Tail(s0) ELSE s0
        hex == Len(s1) >= 2 /\ s1[1] = "0" /\ s1[2] \in {"x", "X"}
        s2 == IF hex THEN Tail(Tail(s1)) ELSE s1
        d == DigitsPrefix(s2, IF hex THEN 16 ELSE 10, 0, 0)
    IN  IF d.count = 0 THEN [nan |-> TRUE, n |-> 0]
        ELSE [nan |-> FALSE, n |-> IF neg THEN 0 - d.value ELSE d.value]

\* a > b for a number a and a parseInt result b (false when b is NaN)
GreaterThan(a, b) == ~b.nan /\ a > b.n

(***************************************************************************)
(* Observer / Subject                                                      *)
(***************************************************************************)
UnimplementedError == "Observer update method should be implemented"
UnknownTypeError == "Unknown device type"
NoError == "none"

\* Observer.update: always throws
ObserverUpdate(data) == [threw |-> TRUE, error |-> UnimplementedError]

\* update as dispatched on a device object: SmartDevice, Light, Thermostat
\* and DoorLock do not override it, so Observer.update runs
Update(obj, data) == ObserverUpdate(data)

\* addObserver with unshift in place of push
AddObserverFront(obs, ref) == <<ref>> \o obs

\* Subject.addObserver
AddObserver(obs, ref) == Append(obs, ref)

\* Subject.removeObserver
RemoveObserver(obs, ref) == SelectSeq(obs, LAMBDA o : o # ref)

RECURSIVE NotifyFrom(_, _, _, _)
\* forEach over the observers from position i; an exception ends the loop
NotifyFrom(h, obs, i, data) ==
    IF i > Len(obs) THEN <<>>
    ELSE LET r == Update(h[obs[i]], data)
             call == [observer |-> obs[i], data |-> data, threw |-> r.threw,
                      seen |-> [j \in 1..Len(h) |-> h[j].status]]
         IN  IF r.threw THEN <<call>>
             ELSE <<call>> \o NotifyFrom(h, obs, i + 1, data)

\* Subject.notify: the update calls it makes, in order
Notify(h, obs, data) == NotifyFrom(h, obs, 1, data)

\* whether a notify ended with an exception
NotifyThrew(calls) == Len(calls) > 0 /\ calls[Len(calls)].threw

(***************************************************************************)
(* Devices                                                                 *)
(***************************************************************************)
DefaultTemperature == 70
NoTemperature == "undefined"

\* SmartDevice constructor
NewSmartDevice(id, type) ==
    [id |-> id, type |-> type, status |-> "off", temperature |-> NoTemperature]

\* Light constructor
NewLight(id) == NewSmartDevice(id, "Light")

\* Thermostat constructor
NewThermostat(id, temperature) ==
    [NewSmartDevice(id, "Thermostat") EXCEPT !.temperature = temperature]

\* DoorLock constructor that leaves the status of the base class
NewDoorLockOff(id) == NewSmartDevice(id, "Door")

\* DoorLock constructor
NewDoorLock(id) == [NewSmartDevice(id, "Door") EXCEPT !.status = "locked"]

\* SmartDevice.turnOn, inherited by every device class
DeviceTurnOn(d) == [d EXCEPT !.status = "on"]

\* turnOff that also lowers the set point of a thermostat
DeviceTurnOffCooling(d) ==
    IF d.type = "Thermostat"
    THEN [d EXCEPT !.status = "off", !.temperature = 60]
    ELSE [d EXCEPT !.status = "off"]

\* SmartDevice.turnOff, inherited by every device class
DeviceTurnOff(d) == [d EXCEPT !.status = "off"]

\* Thermostat.setTemperature
SetTemperature(d, temp) == [d EXCEPT !.temperature = temp]

\* getStatus without the Thermostat override
GetStatusBase(d) == <<d.type, d.id, "is", d.status>>

\* getStatus as dispatched on a device object; the template string is kept
\* as the tuple of its parts
GetStatus(d) ==
    IF d.type = "Thermostat"
    THEN <<"Thermostat", d.id, "is set to", d.temperature, "degrees.">>
    ELSE <<d.type, d.id, "is", d.status>>

\* createDevice whose default case builds a Light instead of throwing
CreateDeviceDefaultLight(type, id) ==
    CASE type = "thermostat" ->
            [threw |-> FALSE, device |-> NewThermostat(id, DefaultTemperature)]
      [] type = "door" -> [threw |-> FALSE, device |-> NewDoorLock(id)]
      [] OTHER -> [threw |-> FALSE, device |-> NewLight(id)]

\* SmartDeviceFactory.createDevice
CreateDevice(type, id) ==
    CASE type = "light" -> [threw |-> FALSE, device |-> NewLight(id)]
      [] type = "thermostat" ->
            [threw |-> FALSE, device |-> NewThermostat(id, DefaultTemperature)]
      [] type = "door" -> [threw |-> FALSE, device |-> NewDoorLock(id)]
      [] OTHER -> [threw |-> TRUE, device |-> "none"]

(***************************************************************************)
(* Scheduler and Automation                                                *)
(***************************************************************************)
\* setSchedule that replaces an earlier task for the same device and time
SchedulerSetScheduleReplace(tasks, device, time, command) ==
    Append(SelectSeq(tasks, LAMBDA t : ~(t.device = device /\ t.time = time)),
           [device |-> device, time |-> time, command |-> command])

\* Scheduler.setSchedule
SchedulerSetSchedule(tasks, device, time, command) ==
    Append(tasks, [device |-> device, time |-> time, command |-> command])

\* Scheduler.getSchedule
GetSchedule(tasks) == tasks

\* Automation.addTrigger
AutomationAddTrigger(trs, condition, action) ==
    Append(trs, [condition |-> condition, action |-> action])

\* the test of one trigger inside Automation.checkTriggers
TriggerMet(trigger, thermostat) ==
    LET toks == Split(trigger.condition)
        property == Element(toks, 1)
        operator == Element(toks, 2)
        value == Element(toks, 3)
    IN  /\ property.def /\ property.s = Temperature
        /\ operator.def /\ operator.s = <<">">>
        /\ GreaterThan(thermostat.temperature, ParseInt(value))

\* Automation.checkTriggers: the positions of the triggers it logs as met
AutomationCheckTriggers(trs, thermostat) ==
    SelectSeq([i \in 1..Len(trs) |-> i],
              LAMBDA i : TriggerMet(trs[i], thermostat))

(***************************************************************************)
(* SmartHomeSystem helpers                                                 *)
(***************************************************************************)
NotFound == 0

RECURSIVE FirstFrom(_, _)
\* position of the first TRUE at or after i, NotFound when there is none
FirstFrom(flags, i) ==
    IF i > Len(flags) THEN NotFound
    ELSE IF flags[i] THEN i
    ELSE FirstFrom(flags, i + 1)

\* find that keeps the last match instead of the first
FindLast(devs, flags) ==
    LET hits == {i \in 1..Len(flags) : flags[i]}
    IN  IF hits = {} THEN NotFound
        ELSE devs[CHOOSE i \in hits : \A j \in hits : j <= i]

\* Array.prototype.find over the registry: the reference it returns,
\* NotFound for undefined
Find(devs, flags) ==
    LET i == FirstFrom(flags, 1) IN IF i = NotFound THEN NotFound ELSE devs[i]

\* lookup by id with >= in place of ===
FindByIdAtLeast(h, devs, deviceId) ==
    Find(devs, [i \in 1..Len(devs) |-> h[devs[i]].id >= deviceId])

\* this.devices.find(d => d.id === deviceId)
FindById(h, devs, deviceId) ==
    Find(devs, [i \in 1..Len(devs) |-> h[devs[i]].id = deviceId])

\* lookup of the thermostat that keeps the last one registered
FindLastThermostat(h, devs) ==
    FindLast(devs, [i \in 1..Len(devs) |-> h[devs[i]].type = "Thermostat"])

\* this.devices.find(d => d.type === 'Thermostat')
FindThermostat(h, devs) ==
    Find(devs, [i \in 1..Len(devs) |-> h[devs[i]].type = "Thermostat"])

\* SmartHomeSystem.getStatusReport, one line per element
GetStatusReport(h, devs) == [i \in 1..Len(devs) |-> GetStatus(h[devs[i]])]

(***************************************************************************)
(* Inputs                                                                  *)
(***************************************************************************)
\* the (type, id) pairs addDevice is called with; "fan" is no device type
NewDevices == {<<"light", 1>>, <<"thermostat", 2>>, <<"door", 3>>, <<"fan", 1>>}
DeviceIds == {1, 2, 3}
Times == {"06:00"}
Commands == {"Turn On"}
Actions == {"turnOff(1)"}

\* a condition string from its tokens
Cond(toks) == Join(toks, <<" ">>)

Cond75 == Cond(<<Temperature, <<">">>, <<"7", "5">>>>)
Cond65 == Cond(<<Temperature, <<">">>, <<"6", "5">>>>)
Cond65Extra == Cond(<<Temperature, <<">">>, <<"6", "5">>, <<"n", "o", "w">>>>)

HubConditions == {Cond75, Cond65, Cond65Extra}

(***************************************************************************)
(* The example usage at the end of the file, followed call by call         *)
(***************************************************************************)
DriverCalls ==
    << [op |-> "addDevice", args |-> <<"light", 1>>],
       [op |-> "addDevice", args |-> <<"thermostat", 2>>],
       [op |-> "addDevice", args |-> <<"door", 3>>],
       [op |-> "turnOn", args |-> <<1>>],
       [op |-> "setSchedule", args |-> <<2, "06:00", "Turn On">>],
       [op |-> "addTrigger", args |-> <<Cond75, "turnOff(1)">>],
       [op |-> "checkTriggers", args |-> <<>>] >>

\* the script's position after one more call on the hub: it advances while
\* the calls made are the script's, and an exception ends the script
DriverStep(d, op, args, outcome) ==
    IF d.st = "running" /\ d.pc < Len(DriverCalls)
       /\ DriverCalls[d.pc + 1] = [op |-> op, args |-> args]
    THEN [pc |-> d.pc + 1, st |-> IF outcome = "threw" THEN "aborted" ELSE "running"]
    ELSE [pc |-> 0, st |-> "off"]

Call(op, args, outcome, error, result) ==
    [op |-> op, args |-> args, outcome |-> outcome, error |-> error,
     result |-> result]

(***************************************************************************)
(* SmartHomeSystem                                                         *)
(***************************************************************************)
\* room for one more device, task or trigger
HasRoom == Len(devices) + Len(scheduledTasks) + Len(triggers) < MaxObjects

\* new SmartHomeSystem()
Init ==
    /\ heap = <<>>
    /\ devices = <<>>
    /\ observers = <<>>
    /\ scheduledTasks = <<>>
    /\ triggers = <<>>
    /\ lastCall = Call("new", <<>>, "returned", NoError, <<>>)
    /\ updateCalls = <<>>
    /\ fired = <<>>
    /\ scheduleCalls = <<>>
    /\ driver = [pc |-> 0, st |-> "running"]

\* addDevice that replaces the registered devices with the same id
AddDeviceReplacing(type, id) ==
    LET c == CreateDevice(type, id)
        ref == Len(heap) + 1
        others == SelectSeq(devices, LAMBDA r : heap[r].id # id)
    IN  /\ c.threw \/ (Len(devices) < MaxDevices /\ HasRoom)
        /\ IF c.threw
           THEN /\ UNCHANGED <<heap, devices, observers>>
                /\ lastCall' = Call("addDevice", <<type, id>>, "threw",
                                    UnknownTypeError, <<>>)
           ELSE /\ heap' = Append(heap, c.device)
                /\ devices' = Append(others, ref)
                /\ observers' = AddObserver(others, ref)
                /\ lastCall' = Call("addDevice", <<type, id>>, "returned",
                                    NoError, <<>>)
        /\ updateCalls' = <<>>
        /\ fired' = <<>>
        /\ driver' = DriverStep(driver, "addDevice", <<type, id>>, lastCall'.outcome)
        /\ UNCHANGED <<scheduledTasks, triggers, scheduleCalls>>

\* SmartHomeSystem.addDevice
AddDevice(type, id) ==
    LET c == CreateDevice(type, id)
        ref == Len(heap) + 1
    IN  /\ c.threw \/ (Len(devices) < MaxDevices /\ HasRoom)
        /\ IF c.threw
           THEN /\ UNCHANGED <<heap, devices, observers>>
                /\ lastCall' = Call("addDevice", <<type, id>>, "threw",
                                    UnknownTypeError, <<>>)
           ELSE /\ heap' = Append(heap, c.device)
                /\ devices' = Append(devices, ref)
                /\ observers' = AddObserver(observers, ref)
                /\ lastCall' = Call("addDevice", <<type, id>>, "returned",
                                    NoError, <<>>)
        /\ updateCalls' = <<>>
        /\ fired' = <<>>
        /\ driver' = DriverStep(driver, "addDevice", <<type, id>>, lastCall'.outcome)
        /\ UNCHANGED <<scheduledTasks, triggers, scheduleCalls>>

\* the rest of turnOn/turnOff once the device was looked up and, when
\* found, mutated (h is the heap after that): notify, then return or throw
NotifyAndReturn(op, deviceId, device, h) ==
    LET calls == IF device # NotFound
                 THEN Notify(h, observers, [action |-> op, deviceId |-> deviceId])
                 ELSE <<>>
    IN  /\ heap' = h
        /\ updateCalls' = calls
        /\ lastCall' = IF NotifyThrew(calls)
                       THEN Call(op, <<deviceId>>, "threw", UnimplementedError, <<>>)
                       ELSE Call(op, <<deviceId>>, "returned", NoError, <<>>)
        /\ fired' = <<>>
        /\ driver' = DriverStep(driver, op, <<deviceId>>, lastCall'.outcome)
        /\ UNCHANGED <<devices, observers, scheduledTasks, triggers, scheduleCalls>>

\* turnOn that switches every device with the id, not only the first
TurnOnEveryMatch(deviceId) ==
    LET device == FindById(heap, devices, deviceId)
        h == [r \in 1..Len(heap) |->
                IF heap[r].id = deviceId THEN DeviceTurnOn(heap[r]) ELSE heap[r]]
    IN  NotifyAndReturn("turnOn", deviceId, device, h)

\* SmartHomeSystem.turnOn
TurnOn(deviceId) ==
    LET device == FindById(heap, devices, deviceId)
        h == IF device # NotFound
             THEN [heap EXCEPT ![device] = DeviceTurnOn(heap[device])]
             ELSE heap
    IN  NotifyAndReturn("turnOn", deviceId, device, h)

\* turnOff that notifies before it writes the status: the exception of the
\* fan-out leaves the device as it was
TurnOffNotifyFirst(deviceId) ==
    LET device == FindById(heap, devices, deviceId)
    IN  NotifyAndReturn("turnOff", deviceId, device, heap)

\* SmartHomeSystem.turnOff
TurnOff(deviceId) ==
    LET device == FindById(heap, devices, deviceId)
        h == IF device # NotFound
             THEN [heap EXCEPT ![device] = DeviceTurnOff(heap[device])]
             ELSE heap
    IN  NotifyAndReturn("turnOff", deviceId, device, h)

\* SmartHomeSystem.setSchedule
SetSchedule(deviceId, time, command) ==
    LET device == FindById(heap, devices, deviceId)
    IN  /\ device = NotFound \/ (Len(scheduledTasks) < MaxTasks /\ HasRoom)
        /\ IF device # NotFound
           THEN /\ scheduledTasks' =
                      SchedulerSetSchedule(scheduledTasks, device, time, command)
                /\ scheduleCalls' = Append(scheduleCalls,
                      [device |-> device, time |-> time, command |-> command])
           ELSE UNCHANGED <<scheduledTasks, scheduleCalls>>
        /\ lastCall' = Call("setSchedule", <<deviceId, time, command>>,
                            "returned", NoError, <<>>)
        /\ updateCalls' = <<>>
        /\ fired' = <<>>
        /\ driver' = DriverStep(driver, "setSchedule", <<deviceId, time, command>>,
                                "returned")
        /\ UNCHANGED <<heap, devices, observers, triggers>>

\* SmartHomeSystem.addTrigger
AddTrigger(condition, action) ==
    /\ Len(triggers) < MaxTriggers /\ HasRoom
    /\ triggers' = AutomationAddTrigger(triggers, condition, action)
    /\ lastCall' = Call("addTrigger", <<condition, action>>, "returned", NoError, <<>>)
    /\ updateCalls' = <<>>
    /\ fired' = <<>>
    /\ driver' = DriverStep(driver, "addTrigger", <<condition, action>>, "returned")
    /\ UNCHANGED <<heap, devices, observers, scheduledTasks, scheduleCalls>>

\* checkTriggers that carries out the action of a met trigger, turnOff(1)
CheckTriggersExecuting ==
    LET thermostat == FindThermostat(heap, devices)
        met == IF thermostat # NotFound
               THEN AutomationCheckTriggers(triggers, heap[thermostat])
               ELSE <<>>
        target == FindById(heap, devices, 1)
    IN  /\ fired' = met
        /\ heap' = IF met # <<>> /\ target # NotFound
                   THEN [heap EXCEPT ![target] = DeviceTurnOff(heap[target])]
                   ELSE heap
        /\ lastCall' = Call("checkTriggers", <<>>, "returned", NoError, <<>>)
        /\ updateCalls' = <<>>
        /\ driver' = DriverStep(driver, "checkTriggers", <<>>, "returned")
        /\ UNCHANGED <<devices, observers, scheduledTasks, triggers, scheduleCalls>>

\* SmartHomeSystem.checkTriggers
CheckTriggers ==
    LET thermostat == FindThermostat(heap, devices)
    IN  /\ fired' = IF thermostat # NotFound
                    THEN AutomationCheckTriggers(triggers, heap[thermostat])
                    ELSE <<>>
        /\ lastCall' = Call("checkTriggers", <<>>, "returned", NoError, <<>>)
        /\ updateCalls' = <<>>
        /\ driver' = DriverStep(driver, "checkTriggers", <<>>, "returned")
        /\ UNCHANGED <<heap, devices, observers, scheduledTasks, triggers,
                       scheduleCalls>>

\* SmartHomeSystem.getStatusReport
StatusReport ==
    /\ lastCall' = Call("getStatusReport", <<>>, "returned", NoError,
                        GetStatusReport(heap, devices))
    /\ updateCalls' = <<>>
    /\ fired' = <<>>
    /\ UNCHANGED <<heap, devices, observers, scheduledTasks, triggers,
                   scheduleCalls, driver>>

\* homeSystem.scheduler.getSchedule()
ReadSchedule ==
    /\ lastCall' = Call("getSchedule", <<>>, "returned", NoError,
                        GetSchedule(scheduledTasks))
    /\ updateCalls' = <<>>
    /\ fired' = <<>>
    /\ UNCHANGED <<heap, devices, observers, scheduledTasks, triggers,
                   scheduleCalls, driver>>

Next ==
    \/ \E nd \in NewDevices : AddDevice(nd[1], nd[2])
    \/ \E id \in DeviceIds : TurnOn(id)
    \/ \E id \in DeviceIds : TurnOff(id)
    \/ \E id \in DeviceIds, time \in Times, command \in Commands :
          SetSchedule(id, time, command)
    \/ \E condition \in HubConditions, action \in Actions :
          AddTrigger(condition, action)
    \/ CheckTriggers
    \/ StatusReport
    \/ ReadSchedule

Spec == Init /\ [][Next]_vars

(***************************************************************************)
(* Automation used on its own with one Thermostat object                   *)
(***************************************************************************)
Temperatures == {70, 75, 80}
Properties == {Temperature, Humidity}
Operators == {<<">">>, <<"<">>}
Values == {<<"7", "5">>, <<"a", "b", "c">>, <<"7", "5", "a">>}
Extra == <<"n", "o", "w">>

\* token lists of one to four tokens, and three tokens after a doubled space
TokenLists ==
    LET three == {<<p, o, v>> : p \in Properties, o \in Operators, v \in Values}
        above == {<<Temperature, <<">">>, v>> : v \in Values}
    IN  three
          \cup {Append(t, Extra) : t \in {u \in three : u[1] = Temperature}}
          \cup {SubSeq(t, 1, 2) : t \in three}
          \cup {SubSeq(t, 1, 1) : t \in three}
          \cup {<<t[1], <<>>, t[2], t[3]>> : t \in above}
          \cup {<< <<>> >>}

EngineConditions == {Cond(t) : t \in TokenLists}

\* new Automation() and new Thermostat(2, temperature)
InitEngine ==
    /\ \E t \in Temperatures : heap = <<NewThermostat(2, t)>>
    /\ devices = <<>>
    /\ observers = <<>>
    /\ scheduledTasks = <<>>
    /\ triggers = <<>>
    /\ lastCall = Call("new", <<>>, "returned", NoError, <<>>)
    /\ updateCalls = <<>>
    /\ fired = <<>>
    /\ scheduleCalls = <<>>
    /\ driver = [pc |-> 0, st |-> "off"]

\* automation.addTrigger(condition, action)
EngineAddTrigger(condition, action) ==
    /\ Len(triggers) < MaxEngineTriggers
    /\ triggers' = AutomationAddTrigger(triggers, condition, action)
    /\ lastCall' = Call("addTrigger", <<condition, action>>, "returned", NoError, <<>>)
    /\ fired' = <<>>
    /\ UNCHANGED <<heap, devices, observers, scheduledTasks, updateCalls,
                   scheduleCalls, driver>>

\* automation.checkTriggers(thermostat)
EngineCheckTriggers ==
    /\ fired' = AutomationCheckTriggers(triggers, heap[1])
    /\ lastCall' = Call("checkTriggers", <<>>, "returned", NoError, <<>>)
    /\ UNCHANGED <<heap, devices, observers, scheduledTasks, triggers,
                   updateCalls, scheduleCalls, driver>>

\* thermostat.setTemperature(temp)
EngineSetTemperature(temp) ==
    /\ heap' = [heap EXCEPT ![1] = SetTemperature(heap[1], temp)]
    /\ lastCall' = Call("setTemperature", <<temp>>, "returned", NoError, <<>>)
    /\ fired' = <<>>
    /\ UNCHANGED <<devices, observers, scheduledTasks, triggers, updateCalls,
                   scheduleCalls, driver>>

NextEngine ==
    \/ \E condition \in EngineConditions, action \in Actions :
          EngineAddTrigger(condition, action)
    \/ EngineCheckTriggers
    \/ \E temp \in Temperatures : EngineSetTemperature(temp)

SpecEngine == InitEngine /\ [][NextEngine]_vars

(***************************************************************************)
(* A hub whose caller also sets the temperature of registered thermostats  *)
(* (homeSystem.devices[i].setTemperature(temp))                            *)
(***************************************************************************)
HubTemperatures == {70, 80}

\* setTemperature called on the i-th registered device, a Thermostat
DirectSetTemperature(i, temp) ==
    /\ i \in 1..Len(devices)
    /\ heap[devices[i]].type = "Thermostat"
    /\ heap' = [heap EXCEPT ![devices[i]] = SetTemperature(heap[devices[i]], temp)]
    /\ lastCall' = Call("setTemperature", <<devices[i], temp>>, "returned",
                        NoError, <<>>)
    /\ updateCalls' = <<>>
    /\ fired' = <<>>
    /\ driver' = DriverStep(driver, "setTemperature", <<devices[i], temp>>,
                            "returned")
    /\ UNCHANGED <<devices, observers, scheduledTasks, triggers, scheduleCalls>>

NextThermostats ==
    \/ \E nd \in NewDevices : AddDevice(nd[1], nd[2])
    \/ \E condition \in HubConditions, action \in Actions :
          AddTrigger(condition, action)
    \/ CheckTriggers
    \/ \E i \in 1..MaxDevices, temp \in HubTemperatures :
          DirectSetTemperature(i, temp)

SpecThermostats == Init /\ [][NextThermostats]_vars

(***************************************************************************)
(* Helpers of the properties                                               *)
(***************************************************************************)
SupportedKinds == {"light", "thermostat", "door"}

\* positions in the registry of the devices with the given id
PositionsOf(h, devs, id) == {i \in 1..Len(devs) : h[devs[i]].id = id}

Registered(h, devs, id) == PositionsOf(h, devs, id) # {}

\* the first device in registration order with the given id
FirstRegistered(h, devs, id) ==
    devs[CHOOSE i \in PositionsOf(h, devs, id) :
            \A j \in PositionsOf(h, devs, id) : i <= j]

IsPrefix(s, t) == Len(s) <= Len(t) /\ SubSeq(t, 1, Len(s)) = s

IsSwitch(call) == call.op \in {"turnOn", "turnOff"}

(***************************************************************************)
(* C1: for a registered id, turnOn/turnOff sets the status of the first    *)
(* device with that id, the update hook of every listener is invoked once, *)
(* in registration order, and the call returns normally.                   *)
(***************************************************************************)
C1_SwitchNotifiesEveryListener ==
    (IsSwitch(lastCall) /\ Registered(heap, devices, lastCall.args[1])) =>
        /\ lastCall.outcome = "returned"
        /\ heap[FirstRegistered(heap, devices, lastCall.args[1])].status =
              (IF lastCall.op = "turnOn" THEN "on" ELSE "off")
        /\ Len(updateCalls) = Len(observers)
        /\ \A i \in 1..Len(updateCalls) :
              /\ updateCalls[i].observer = observers[i]
              /\ ~updateCalls[i].threw

(***************************************************************************)
(* C2: no call of normal operation (addDevice with a supported kind,       *)
(* turnOn, turnOff, setSchedule, addTrigger, checkTriggers, statusReport)  *)
(* raises; the unimplemented-update error is never reached.                *)
(***************************************************************************)
C2_NormalOperationNeverRaises ==
    /\ (lastCall.op = "addDevice" => lastCall.args[1] \in SupportedKinds) =>
          lastCall.outcome = "returned"
    /\ lastCall.error # UnimplementedError

(***************************************************************************)
(* C3: the example sequence (three addDevice, turnOn(1), setSchedule,      *)
(* addTrigger, checkTriggers) runs to completion; at its end the status    *)
(* report is Light 1 on, Thermostat 2 at 70, Door 3 locked, the schedule   *)
(* holds one task, for device 2, and nothing fired.                        *)
(***************************************************************************)
C3_ExampleRunsToCompletion ==
    /\ driver.st # "aborted"
    /\ (driver.st = "running" /\ driver.pc = Len(DriverCalls)) =>
          /\ GetStatusReport(heap, devices) =
                << <<"Light", 1, "is", "on">>,
                   <<"Thermostat", 2, "is set to", 70, "degrees.">>,
                   <<"Door", 3, "is", "locked">> >>
          /\ Len(scheduledTasks) = 1
          /\ heap[scheduledTasks[1].device].id = 2
          /\ fired = <<>>

(***************************************************************************)
(* C4: in every reachable state the listener list equals the device        *)
(* registry: same devices, same order.                                     *)
(***************************************************************************)
C4_ListenersEqualDevices == observers = devices

C4_Witness ==
    /\ lastCall.op = "addDevice" /\ lastCall.outcome = "returned"
    /\ Len(devices) >= 2
    /\ Len(observers) >= 2

(***************************************************************************)
(* C5: the status of every DoorLock is always locked or unlocked and the   *)
(* status of every Light is always on or off.                              *)
(***************************************************************************)
C5_StatusDomains ==
    \A i \in 1..Len(devices) :
        /\ heap[devices[i]].type = "Door" =>
              heap[devices[i]].status \in {"locked", "unlocked"}
        /\ heap[devices[i]].type = "Light" =>
              heap[devices[i]].status \in {"on", "off"}

(***************************************************************************)
(* C6: turnOn/turnOff with an id that matches no registered device leaves  *)
(* the registry, the listeners, every device, the schedule and the rules   *)
(* unchanged, notifies no listener and does not raise.                     *)
(***************************************************************************)
C6_UnknownIdIsNoOp ==
    [][(IsSwitch(lastCall') /\ ~Registered(heap, devices, lastCall'.args[1])) =>
          /\ UNCHANGED <<heap, devices, observers, scheduledTasks, triggers>>
          /\ updateCalls' = <<>>
          /\ lastCall'.outcome = "returned"]_vars

C6_Witness ==
    /\ IsSwitch(lastCall)
    /\ ~Registered(heap, devices, lastCall.args[1])
    /\ Len(devices) >= 2
    /\ Len(scheduledTasks) >= 1
    /\ Len(triggers) >= 1

(***************************************************************************)
(* C7: addDevice with a kind other than light, thermostat or door fails    *)
(* with the unknown-kind error, which reaches the caller, and the registry *)
(* and the listener list are as before the call.                           *)
(***************************************************************************)
C7_UnknownKindFails ==
    [][(lastCall'.op = "addDevice" /\ lastCall'.args[1] \notin SupportedKinds) =>
          /\ lastCall'.outcome = "threw"
          /\ lastCall'.error = UnknownTypeError
          /\ UNCHANGED <<heap, devices, observers>>]_vars

C7_Witness ==
    /\ lastCall.op = "addDevice"
    /\ lastCall.args[1] \notin SupportedKinds
    /\ lastCall.outcome = "threw"
    /\ Len(devices) >= 1

(***************************************************************************)
(* C8: the task list is append-only and ordered: it is exactly the         *)
(* recorded (device, time, command) tuples in call order, two tasks for    *)
(* the same device and time are both kept, no recorded task is changed or  *)
(* removed, and two consecutive reads return equal sequences.              *)
(***************************************************************************)
C8_ScheduleAppendOnly ==
    /\ [](/\ scheduledTasks = scheduleCalls
          /\ lastCall.op = "getSchedule" => lastCall.result = scheduleCalls)
    /\ [][/\ IsPrefix(scheduledTasks, scheduledTasks')
          /\ (lastCall.op = "getSchedule" /\ lastCall'.op = "getSchedule") =>
                lastCall'.result = lastCall.result]_vars

C8_Witness ==
    /\ lastCall.op = "getSchedule"
    /\ Len(lastCall.result) = 2
    /\ lastCall.result[1].device = lastCall.result[2].device
    /\ lastCall.result[1].time = lastCall.result[2].time

(***************************************************************************)
(* C9: setSchedule appends exactly one task, for the first registered      *)
(* device with that id, when there is one, and otherwise leaves the        *)
(* schedule unchanged; it never raises and never changes a device, the     *)
(* registry or the rule list.                                              *)
(***************************************************************************)
C9_SetScheduleFrame ==
    [][lastCall'.op = "setSchedule" =>
          /\ lastCall'.outcome = "returned"
          /\ UNCHANGED <<heap, devices, observers, triggers>>
          /\ scheduledTasks' =
                IF Registered(heap, devices, lastCall'.args[1])
                THEN Append(scheduledTasks,
                        [device |-> FirstRegistered(heap, devices, lastCall'.args[1]),
                         time |-> lastCall'.args[2],
                         command |-> lastCall'.args[3]])
                ELSE scheduledTasks]_vars

C9_Witness ==
    /\ lastCall.op = "setSchedule"
    /\ Cardinality(PositionsOf(heap, devices, lastCall.args[1])) >= 2
    /\ Len(scheduledTasks) >= 1
    /\ scheduledTasks[Len(scheduledTasks)].device =
          FirstRegistered(heap, devices, lastCall.args[1])

(***************************************************************************)
(* C10: checkTriggers of Automation fires a rule if and only if its        *)
(* condition is `temperature > v` for an integer v and the thermostat's    *)
(* temperature is strictly greater than v; `temperature > 75` fires at 80  *)
(* and not at 70 or 75; any other property or operator never fires.        *)
(***************************************************************************)
DigitChars == <<"0", "1", "2", "3", "4", "5", "6", "7", "8", "9">>

RECURSIVE Decimal(_)
\* the decimal numeral of a natural number
Decimal(n) ==
    IF n < 10 THEN <<DigitChars[n + 1]>>
    ELSE Append(Decimal(n \div 10), DigitChars[(n % 10) + 1])

\* the condition is `temperature > v` with t > v
IsTemperatureAbove(condition, t) ==
    \E v \in 0..99 :
        /\ condition = Cond(<<Temperature, <<">">>, Decimal(v)>>)
        /\ t > v

HasFired(i) == \E k \in 1..Len(fired) : fired[k] = i

C10_FiresIffTemperatureAbove ==
    lastCall.op = "checkTriggers" =>
        \A i \in 1..Len(triggers) :
            HasFired(i) <=> IsTemperatureAbove(triggers[i].condition,
                                               heap[1].temperature)

(***************************************************************************)
(* C11: a rule whose condition does not split into exactly three           *)
(* space-delimited tokens is skipped by checkTriggers: it never fires.     *)
(***************************************************************************)
C11_NotThreeTokensNeverFires ==
    lastCall.op = "checkTriggers" =>
        /\ lastCall.outcome = "returned"
        /\ \A i \in 1..Len(triggers) :
              Len(Split(triggers[i].condition)) # 3 => ~HasFired(i)

(***************************************************************************)
(* C12: a rule whose value token cannot be parsed as an integer never      *)
(* fires at any temperature, raises nothing, and the rules after it are    *)
(* still evaluated and fire when their own condition is met.               *)
(***************************************************************************)
DecimalDigits == {"0", "1", "2", "3", "4", "5", "6", "7", "8", "9"}

\* the token has no numeral at its start (after an optional sign)
NotAnInteger(tok) ==
    LET t == IF Len(tok) > 0 /\ tok[1] \in {"+", "-"} THEN Tail(tok) ELSE tok
    IN  Len(t) = 0 \/ t[1] \notin DecimalDigits

\* the third token of a condition of at least three tokens is no integer
HasBadValue(condition) ==
    /\ Len(Split(condition)) >= 3
    /\ NotAnInteger(Split(condition)[3])

ThermostatPositions == {i \in 1..Len(devices) : heap[devices[i]].type = "Thermostat"}

FirstThermostat ==
    devices[CHOOSE i \in ThermostatPositions :
               \A j \in ThermostatPositions : i <= j]

C13_FirstThermostatOnly ==
    lastCall.op = "checkTriggers" =>
        /\ lastCall.outcome = "returned"
        /\ IF ThermostatPositions = {} THEN fired = <<>>
           ELSE \A i \in 1..Len(triggers) :
                   HasFired(i) <=> TriggerMet(triggers[i], heap[FirstThermostat])

C13_Witness ==
    /\ lastCall.op = "checkTriggers"
    /\ Cardinality(ThermostatPositions) >= 2
    /\ heap[FirstThermostat].temperature = 70
    /\ \E i \in ThermostatPositions : heap[devices[i]].temperature = 80
    /\ Len(triggers) = 1
    /\ triggers[1].condition = Cond75
    /\ fired = <<>>

(***************************************************************************)
(* C14: getStatusReport returns one entry per registered device, in        *)
(* registration order, each the getStatus output of that device; the       *)
(* entry of a Thermostat reports its temperature and is the same before    *)
(* and after turnOn/turnOff of that thermostat.                            *)
(***************************************************************************)
\* the status line the device classes document
StatusLine(d) ==
    CASE d.type = "Thermostat" ->
            <<"Thermostat", d.id, "is set to", d.temperature, "degrees.">>
      [] d.type = "Door" -> <<"Door", d.id, "is", d.status>>
      [] OTHER -> <<"Light", d.id, "is", d.status>>

C14_StatusReport ==
    /\ [](lastCall.op = "getStatusReport" =>
             /\ Len(lastCall.result) = Len(devices)
             /\ \A i \in 1..Len(devices) :
                   lastCall.result[i] = StatusLine(heap[devices[i]]))
    /\ [][IsSwitch(lastCall') =>
             \A i \in 1..Len(devices) :
                heap[devices[i]].type = "Thermostat" =>
                   GetStatusReport(heap', devices')[i] =
                      GetStatusReport(heap, devices)[i]]_vars

C14_Witness ==
    /\ lastCall.op = "getStatusReport"
    /\ Len(lastCall.result) >= 2
    /\ \E i \in 1..Len(devices) :
          /\ heap[devices[i]].type = "Thermostat"
          /\ heap[devices[i]].status = "on"
          /\ lastCall.result[i] =
                <<"Thermostat", heap[devices[i]].id, "is set to", 70, "degrees.">>

(***************************************************************************)
(* C15: a device just created through addDevice has the initial state of   *)
(* its kind: a door is locked, a light is off, a thermostat has            *)
(* temperature 70; its getStatus mentions the id given.                    *)
(***************************************************************************)
C15_InitialState ==
    (lastCall.op = "addDevice" /\ lastCall.outcome = "returned") =>
        LET d == heap[devices[Len(devices)]]
            kind == lastCall.args[1]
        IN  /\ d.id = lastCall.args[2]
            /\ GetStatus(d)[2] = lastCall.args[2]
            /\ kind = "door" => (d.type = "Door" /\ d.status = "locked")
            /\ kind = "light" => (d.type = "Light" /\ d.status = "off")
            /\ kind = "thermostat" =>
                  (d.type = "Thermostat" /\ d.temperature = 70 /\ GetStatus(d)[4] = 70)

C15_Witness ==
    /\ lastCall.op = "addDevice" /\ lastCall.outcome = "returned"
    /\ lastCall.args = <<"door", 3>>
    /\ Len(devices) >= 2
    /\ heap[devices[Len(devices)]].status = "locked"

(***************************************************************************)
(* C16: when several registered devices share an id, turnOn/turnOff        *)
(* changes the status of the first of them only; every other device,       *)
(* the later ones with the same id included, is unchanged.                 *)
(***************************************************************************)
C16_OnlyFirstOfSharedId ==
    [][(IsSwitch(lastCall') /\ Registered(heap, devices, lastCall'.args[1])) =>
          LET first == FirstRegistered(heap, devices, lastCall'.args[1])
          IN  /\ devices' = devices
              /\ heap'[first] =
                    [heap[first] EXCEPT
                        !.status = IF lastCall'.op = "turnOn" THEN "on" ELSE "off"]
              /\ \A r \in 1..Len(heap) : r # first => heap'[r] = heap[r]]_vars

C16_Witness ==
    /\ lastCall.op = "turnOn"
    /\ Cardinality(PositionsOf(heap, devices, lastCall.args[1])) >= 2
    /\ heap[FirstRegistered(heap, devices, lastCall.args[1])].status = "on"
    /\ \E i \in PositionsOf(heap, devices, lastCall.args[1]) :
          heap[devices[i]].status # "on"

(***************************************************************************)
(* C17: evaluating rules never executes an action: checkTriggers, whether  *)
(* or not a rule fires, leaves every device, the registry, the schedule    *)
(* and the rule list unchanged; addTrigger changes only the rule list, by  *)
(* appending one rule, also when no device is registered.                  *)
(***************************************************************************)
C17_RulesAreNeverExecuted ==
    [][/\ lastCall'.op = "checkTriggers" =>
             UNCHANGED <<heap, devices, observers, scheduledTasks, triggers>>
       /\ lastCall'.op = "addTrigger" =>
             /\ lastCall'.outcome = "returned"
             /\ UNCHANGED <<heap, devices, observers, scheduledTasks>>
             /\ triggers' = Append(triggers, [condition |-> lastCall'.args[1],
                                              action |-> lastCall'.args[2]])]_vars

C17_Witness ==
    /\ lastCall.op = "checkTriggers"
    /\ fired = <<1>>
    /\ triggers[1].action = "turnOff(1)"
    /\ \E i \in 1..Len(devices) :
          heap[devices[i]].id = 1 /\ heap[devices[i]].status = "on"
    /\ Len(scheduledTasks) >= 1

(***************************************************************************)
(* C18: in turnOn/turnOff the status is written before the first listener  *)
(* is notified: whenever an update hook runs the target device already has *)
(* its new status, and the new status stays when the fan-out ends with an  *)
(* error.                                                                  *)
(***************************************************************************)
C18_StatusWrittenBeforeNotify ==
    (IsSwitch(lastCall) /\ Registered(heap, devices, lastCall.args[1])) =>
        LET target == FirstRegistered(heap, devices, lastCall.args[1])
            new == IF lastCall.op = "turnOn" THEN "on" ELSE "off"
        IN  /\ Len(updateCalls) >= 1
            /\ \A k \in 1..Len(updateCalls) : updateCalls[k].seen[target] = new
            /\ lastCall.outcome = "threw" => heap[target].status = new

C18_Witness ==
    /\ lastCall.op = "turnOff"
    /\ lastCall.outcome = "threw"
    /\ Registered(heap, devices, lastCall.args[1])
    /\ heap[FirstRegistered(heap, devices, lastCall.args[1])].type = "Door"
    /\ heap[FirstRegistered(heap, devices, lastCall.args[1])].status = "off"
    /\ updateCalls[1].seen[FirstRegistered(heap, devices, lastCall.args[1])] = "off"

(***************************************************************************)
(* C19: every recorded task refers to a device that is in the registry,    *)
(* and the registry is append-only (no device is removed or moved), so a   *)
(* recorded task never refers to a missing device later.                   *)
(***************************************************************************)
InRegistry(ref) == \E i \in 1..Len(devices) : devices[i] = ref

C19_TasksReferToRegisteredDevices ==
    /\ [](\A k \in 1..Len(scheduledTasks) : InRegistry(scheduledTasks[k].device))
    /\ [][IsPrefix(devices, devices')]_vars

C19_Witness ==
    /\ lastCall.op = "addDevice" /\ lastCall.outcome = "returned"
    /\ Len(scheduledTasks) >= 1
    /\ heap[scheduledTasks[1].device].id = lastCall.args[2]
    /\ scheduledTasks[1].device # devices[Len(devices)]
    /\ InRegistry(scheduledTasks[1].device)

(***************************************************************************)
(* C20: no hub operation changes a thermostat's temperature: every         *)
(* registered thermostat always has temperature 70, so checkTriggers fires *)
(* a rule `temperature > v` exactly when v < 70.                           *)
(***************************************************************************)
ThermostatsAtDefault ==
    \A i \in 1..Len(devices) :
        heap[devices[i]].type = "Thermostat" => heap[devices[i]].temperature = 70

\* every rule `temperature > v` has fired exactly when v < 70
FiresBelowDefault ==
    \A i \in 1..Len(triggers), v \in 0..99 :
        triggers[i].condition = Cond(<<Temperature, <<">">>, Decimal(v)>>) =>
            (HasFired(i) <=> v < 70)

C20_FiresExactlyBelow70 ==
    /\ ThermostatsAtDefault
    /\ lastCall.op = "checkTriggers" => FiresBelowDefault

\* amended: the second half holds when a Thermostat is registered
C20_FiresExactlyBelow70WithThermostat ==
    /\ ThermostatsAtDefault
    /\ (lastCall.op = "checkTriggers" /\ ThermostatPositions # {}) =>
          FiresBelowDefault

C20_Witness ==
    /\ lastCall.op = "checkTriggers"
    /\ ThermostatPositions # {}
    /\ heap[FirstThermostat].status = "off"
    /\ \E i \in 1..Len(devices) : heap[devices[i]].status = "on"
    /\ Len(triggers) = 1
    /\ triggers[1].condition = Cond65
    /\ fired = <<1>>

====
